---- MODULE Spec2Model ----
(***************************************************************************)
(* A model of lune (lib/julian.js, lib/lune.js): the time-scale converter  *)
(* and the lunar phase engine.                                             *)
(*                                                                         *)
(* Numbers.  JavaScript numbers are IEEE-754 doubles; TLC has 32-bit       *)
(* integers.  Three representations are used:                              *)
(*   - a Date is [valid, day, ms]: the instant day*86400000 + ms           *)
(*     milliseconds since the Unix epoch, 0 <= ms < 86400000               *)
(*     (valid = FALSE is the Invalid Date, whose time value is NaN);       *)
(*   - a day count produced or consumed by julian.js is [nan, h, f]: the   *)
(*     double h/2 + f/2^31 days, 0 <= f < 2^30.  For day counts of         *)
(*     magnitude 2^21 .. 2^27 every double is of this form, and fromDate   *)
(*     and toDate below perform the roundings of the double arithmetic     *)
(*     exactly (round to nearest, ties to even);                           *)
(*   - the phase engine's reals are fixed-point decimals with 8 fraction   *)
(*     digits (Unit = 10^8), angles in micro-degrees.                      *)
(***************************************************************************)
EXTENDS Integers, Sequences, FiniteSets, TLC

VARIABLES
  \* a caller of julian.js converting back and forth:
  jsrc,    \* "date" or "num": what the caller started from
  jorig,   \* the value the caller started from
  jcur,    \* "date" or "num": which of jdate, jnum is current
  jdate,   \* the current Date
  jnum,    \* the current day count
  jstep,   \* conversions applied so far
  \* the module object of lune.js and one call of it:
  exports, \* the properties of the exported object and their values
  call,    \* "phase", "phase_hunt" or "phase_range" ("none": no call of lune.js)
  arg,     \* the Date passed (phase_range: start)
  arg2,    \* phase_range: end
  sel,     \* phase_range: the phase selector
  tz,      \* the local offset of the environment, minutes east of UTC
  pc,      \* "start", "kepler" (in kepler's loop), "search" (in phase_hunt's loop), "done";
           \* phase_range: "skip", "collect" (in its two loops), "error" (dates refused)
  iter,    \* passes made through the loop
  day,     \* phase: day
  M,       \* phase: M
  kep_e,   \* kepler: e
  adate,   \* phase_hunt: adate
  sdate,   \* phase_hunt: sdate, once converted
  k1,      \* phase_hunt: k1 (phase_range: k)
  k2,      \* phase_hunt: k2
  nt1,     \* phase_hunt: nt1
  nt2,     \* phase_hunt: nt2
  mean_t,  \* meanphase: t of its latest call
  frame,   \* the argument or locals of a function of lune.js called on its own
  console, \* the selectors logged by truephase, in order
  ret,     \* the value returned
  prev     \* the environment and result of an earlier call with the same argument

julVars == <<jsrc, jorig, jcur, jdate, jnum, jstep>>
luneVars == <<exports, call, arg, arg2, sel, tz, pc, iter, day, M, kep_e, adate, sdate,
              k1, k2, nt1, nt2, mean_t, frame, console, ret, prev>>
vars == <<julVars, luneVars>>

(***************************************************************************)
(* Integer helpers                                                         *)
(***************************************************************************)
Abs(a) == IF a < 0 THEN -a ELSE a
Sgn(a) == IF a < 0 THEN -1 ELSE 1
Min(a, b) == IF a < b THEN a ELSE b

RECURSIVE Log2Floor(_)
Log2Floor(n) == IF n < 2 THEN 0 ELSE 1 + Log2Floor(n \div 2)

(***************************************************************************)
(* lib/julian.js                                                           *)
(***************************************************************************)
\* date.getTime() / 86400000: milliseconds per day
MS_PER_DAY == 86400000
\* 2440587.5, the day count of the Unix epoch, in half days
EPOCH_HALF_DAYS == 4881175
\* ECMAScript TimeClip: a time value beyond 8.64e15 ms (10^8 days) is NaN
MAX_DATE_DAYS == 100000000

\* one day is 2^31 ticks; a half day:
HalfDayTicks == 2^30
\* 86400000 = 2^10 * 84375, so one millisecond is 2^21 / 84375 ticks
TickDen == MS_PER_DAY \div 1024
SubTicks == 2^21

InDateRangeHalfDays(hd) == Abs(hd) < 2 * MAX_DATE_DAYS

InvalidDate == [valid |-> FALSE, day |-> 0, ms |-> 0]
MkDate(d, m) == [valid |-> TRUE, day |-> d, ms |-> m]
NaNCount == [nan |-> TRUE, h |-> 0, f |-> 0]
MkCount(hh, ff) == [nan |-> FALSE, h |-> hh, f |-> ff]

\* <<q, r>> with r * 2^n = q * TickDen + r', by n doublings
RECURSIVE ScaleRem(_, _, _)
ScaleRem(q, r, n) ==
  IF n = 0 THEN <<q, r>>
  ELSE IF 2 * r >= TickDen THEN ScaleRem(2 * q + 1, 2 * r - TickDen, n - 1)
       ELSE ScaleRem(2 * q, 2 * r, n - 1)

\* ms milliseconds in ticks: <<T, r>> with ms * 2^21 = T * TickDen + r
DivTicks(ms) ==
  LET s == ScaleRem(0, ms % TickDen, 21)
  IN  <<(ms \div TickDen) * SubTicks + s[1], s[2]>>

\* The fraction below one tick is kept as a class:
\* 0: none, 1: below a half, 2: exactly a half, 3: above a half
FracClass(r) == IF r = 0 THEN 0 ELSE IF 2 * r < TickDen THEN 1 ELSE 3

\* T ticks plus a fraction of class c, rounded to a multiple of g = 2^j ticks,
\* ties to the even multiple
RoundGrid(T, c, g) ==
  LET lo == T - (T % g)
      m == T % g
      up == IF g = 1
            THEN c = 3 \/ (c = 2 /\ lo % 2 = 1)
            ELSE \/ 2 * m > g
                 \/ (2 * m = g /\ c > 0)
                 \/ (2 * m = g /\ c = 0 /\ (lo \div g) % 2 = 1)
  IN  IF up THEN lo + g ELSE lo

\* The double nearest to D + (T + r/TickDen) / 2^31 days, D + .. in [2^e, 2^(e+1)):
\* its spacing is 2^(e-52) days = 2^(e-21) ticks.  Result <<T1, c>>.
RoundQuotient(T, r, e) ==
  LET s == 21 - e
  IN  IF T = 0 /\ r = 0 THEN <<0, 0>>
      ELSE IF s <= 0 THEN <<RoundGrid(T, FracClass(r), 2^(-s)), 0>>
      ELSE LET s1 == Min(s, 17)
               a == TickDen \div 2^(s1 + 1)
               b == TickDen \div 2^s1
               d == 2 * r - TickDen
           IN  IF r <= a THEN <<T, 0>>
               ELSE IF TickDen - r <= a THEN <<T + 1, 0>>
               ELSE IF Abs(d) <= b THEN <<T, 2>>
               ELSE IF d > 0 THEN <<T, 3>> ELSE <<T, 1>>

\* h half days + f ticks (+ class c), f possibly beyond a half day: normalised
NormCount(hh, ff) ==
  IF ff >= HalfDayTicks THEN MkCount(hh + 1, ff - HalfDayTicks) ELSE MkCount(hh, ff)

\* q + 2440587.5 rounded to a double, for |q| = D days + T1 ticks + class c
AddEpoch(neg, D, T1, c) ==
  LET \* the exact sum as h half days + f ticks + class cc, 0 <= f < 2^30
      pos == IF T1 >= HalfDayTicks
             THEN <<2 * D + EPOCH_HALF_DAYS + 1, T1 - HalfDayTicks, c>>
             ELSE <<2 * D + EPOCH_HALF_DAYS, T1, c>>
      k == IF T1 + (IF c > 0 THEN 1 ELSE 0) <= HalfDayTicks THEN 1 ELSE 2
      rest == IF c = 0 THEN (k - 1) * HalfDayTicks + (HalfDayTicks - T1)
              ELSE (k - 1) * HalfDayTicks + (HalfDayTicks - T1 - 1)
      negv == IF T1 = 0 /\ c = 0 THEN <<EPOCH_HALF_DAYS - 2 * D, 0, 0>>
              ELSE IF rest >= HalfDayTicks
                   THEN <<EPOCH_HALF_DAYS - 2 * D - k + 1, rest - HalfDayTicks,
                          IF c = 0 THEN 0 ELSE 4 - c>>
                   ELSE <<EPOCH_HALF_DAYS - 2 * D - k, rest, IF c = 0 THEN 0 ELSE 4 - c>>
      sum == IF neg THEN negv ELSE pos
      E == Log2Floor(sum[1] \div 2)
      g == 2^(E - 21)
  IN  NormCount(sum[1], RoundGrid(sum[2], sum[3], g))

\* function fromDate (date) { return date.getTime() / 86400000 + 2440587.5 }
fromDate_WholeDays(date) ==
  IF ~date.valid THEN NaNCount ELSE MkCount(2 * date.day + EPOCH_HALF_DAYS, 0)

fromDate(date) ==
  IF ~date.valid THEN NaNCount
  ELSE LET neg == date.day < 0
           \* |getTime()| = D days + m ms
           D == IF ~neg THEN date.day
                ELSE IF date.ms = 0 THEN -date.day ELSE -date.day - 1
           m == IF ~neg \/ date.ms = 0 THEN date.ms ELSE MS_PER_DAY - date.ms
           tr == DivTicks(m)
           e == IF D >= 1 THEN Log2Floor(D) ELSE -1
           q == RoundQuotient(tr[1], tr[2], e)
       IN  AddEpoch(neg, D, q[1], q[2])

\* floor(log2(d * 86400000 + m)) for a positive number of milliseconds
RECURSIVE Log2Ms(_, _)
Log2Ms(d, m) ==
  IF d = 0 /\ m < 2 THEN 0
  ELSE 1 + Log2Ms(d \div 2, (m + (d % 2) * MS_PER_DAY) \div 2)

\* The product (julian - 2440587.5) * 86400000 = D days + m ms + fr / 2^21 ms in
\* magnitude, rounded to a double and then truncated to an integer by new Date():
\* <<days, ms>>.  A double below 2^b+1 has spacing 2^(b-52).
RoundTrunc(D, m, fr) ==
  LET b == Log2Ms(D, m)
      gap == SubTicks - fr
      th == 2^(Min(b, 52) - 32)
      up == /\ b >= 32
            /\ fr > 0
            /\ \/ gap < th
               \/ (gap = th /\ (b < 52 \/ m % 2 = 1))
  IN  IF ~up THEN <<D, m>>
      ELSE IF m + 1 = MS_PER_DAY THEN <<D + 1, 0>> ELSE <<D, m + 1>>

\* function toDate (julian) { return new Date((julian - 2440587.5) * 86400000) }
toDate_WholeDays(julian) ==
  IF julian.nan \/ ~InDateRangeHalfDays(julian.h - EPOCH_HALF_DAYS) THEN InvalidDate
  ELSE MkDate((julian.h - EPOCH_HALF_DAYS) \div 2, 0)

toDate(julian) ==
  IF julian.nan THEN InvalidDate
  ELSE
    LET \* julian - 2440587.5 is exact: hd half days + f ticks
        hd == julian.h - EPOCH_HALF_DAYS
        \* f ticks are f * 84375 / 2^21 ms = I + Mr / 2^21
        fh == julian.f \div SubTicks
        fl == julian.f % SubTicks
        A == (fl \div 2048) * TickDen
        B == (fl % 2048) * TickDen
        num == (A % 1024) * 2048 + B
        I == fh * TickDen + (A \div 1024) + (num \div SubTicks)
        Mr == num % SubTicks
        half == MS_PER_DAY \div 2
        \* the magnitude of the product: <<days, ms, fraction>>
        pos == <<hd \div 2, (hd % 2) * half + I, Mr>>
        hh == -hd - 1
        v == IF Mr = 0 THEN half - I ELSE half - I - 1
        msn == (hh % 2) * half + v
        negv == IF I = 0 /\ Mr = 0
                THEN <<(-hd) \div 2, ((-hd) % 2) * half, 0>>
                ELSE IF msn >= MS_PER_DAY
                     THEN <<(hh \div 2) + 1, msn - MS_PER_DAY, IF Mr = 0 THEN 0 ELSE SubTicks - Mr>>
                     ELSE <<hh \div 2, msn, IF Mr = 0 THEN 0 ELSE SubTicks - Mr>>
        mag == IF hd >= 0 THEN pos ELSE negv
        t == RoundTrunc(mag[1], mag[2], mag[3])
    IN  IF Abs(hd) > 2 * MAX_DATE_DAYS + 1 THEN InvalidDate
        ELSE IF t[1] > MAX_DATE_DAYS \/ (t[1] = MAX_DATE_DAYS /\ t[2] > 0) THEN InvalidDate
        ELSE IF hd >= 0 THEN MkDate(t[1], t[2])
        ELSE IF t[2] = 0 THEN MkDate(-t[1], 0)
        ELSE MkDate(-t[1] - 1, MS_PER_DAY - t[2])

(***************************************************************************)
(* Arithmetic of lune.js.  Its doubles are modelled in fixed point: a      *)
(* small number is an integer count of 10^-8 (of a radian, a day, a pure   *)
(* number), an angle in degrees is an integer count of micro-degrees, and  *)
(* a day count is a real [nan, i, f] of value i + f / 10^8.  Products are  *)
(* split so that no intermediate value leaves 32 bits.                     *)
(***************************************************************************)
Unit == 10^8
Limb == 10^4
C360 == 360 * 10^6

\* a number that may be NaN
NaN == [nan |-> TRUE, v |-> 0]
Num(x) == [nan |-> FALSE, v |-> x]

\* a * b / 10^8 for |a|, |b| < 1.1 * 10^9 and |a * b| < 21 * 10^16
FMulLimbs(xh, xl, yh, yl) == xh * yh + (xh * yl + xl * yh + (xl * yl) \div Limb) \div Limb
FMulAbs(x, y) == FMulLimbs(x \div Limb, x % Limb, y \div Limb, y % Limb)
FMul(a, b) == Sgn(a) * Sgn(b) * FMulAbs(Abs(a), Abs(b))

\* <<(a * b) \div c, (a * b) % c>> for a, b >= 0 and 0 < c <= 2^29, by doubling on b
RECURSIVE MulDivQR(_, _, _)
MulDivQR(a, b, c) ==
  IF a = 0 \/ b = 0 \/ c < 1 THEN <<0, 0>>
  ELSE LET h == MulDivQR(a, b \div 2, c)
           r2 == 2 * h[2] + (b % 2) * (a % c)
       IN  <<2 * h[1] + (b % 2) * (a \div c) + r2 \div c, r2 % c>>

\* a * b / c truncated toward zero, c > 0
MulDiv(a, b, c) == Sgn(a) * Sgn(b) * MulDivQR(Abs(a), Abs(b), c)[1]

\* a * 10^8 / c truncated toward zero, for 0 < c <= 214748364: long division by
\* eight decimal digits
RECURSIVE LongDiv(_, _, _, _)
LongDiv(q, r, c, n) ==
  IF n = 0 THEN q ELSE LongDiv(10 * q + (10 * r) \div c, (10 * r) % c, c, n - 1)
FDiv(a, c) == Sgn(a) * LongDiv(Abs(a) \div c, Abs(a) % c, c, 8)

\* floor(a * b / c) for b, c > 0
MulDivFloor(a, b, c) ==
  IF a >= 0 THEN MulDivQR(a, b, c)[1]
  ELSE LET h == MulDivQR(-a, b, c)
       IN  IF h[2] = 0 THEN -h[1] ELSE -h[1] - 1

\* (c * n) % md for n >= 0, 0 <= c < md < 2^29
RECURSIVE ModMul(_, _, _)
ModMul(c, n, md) ==
  IF c = 0 \/ n = 0 THEN 0 ELSE (2 * ModMul(c, n \div 2, md) + (n % 2) * c) % md

\* pi / 2, pi / 4, pi and 2 pi in 10^-8 radian
HALFPI == 157079633
QUARTERPI == 78539816
PI == 314159265
TWOPI == 628318531

\* sine and cosine of r radians, |r| <= pi / 4: the Taylor series to r^11 and r^12,
\* 1 - r2 / d[n] * (1 - r2 / d[n-1] * (...)), with d the products of successive integers
SinDivisors == <<110, 72, 42, 20, 6>>
CosDivisors == <<132, 90, 56, 30, 12, 2>>
RECURSIVE Taylor(_, _, _)
Taylor(r2, d, n) ==
  IF n = 0 THEN Unit ELSE Unit - FMul(r2, Taylor(r2, d, n - 1)) \div d[n]
SinCore(r) == FMul(r, Taylor(FMul(r, r), SinDivisors, 5))
CosCore(r) == Taylor(FMul(r, r), CosDivisors, 6)

\* the sine (sine = TRUE) or the cosine of b in [0, pi / 2], from the nearer end
SinCos(sine, b) ==
  IF b <= QUARTERPI
    THEN IF sine THEN SinCore(b) ELSE CosCore(b)
    ELSE IF sine THEN CosCore(HALFPI - b) ELSE SinCore(HALFPI - b)
\* the sine of q * pi / 2 + b
SinQuadrant(q, b) ==
  IF q < 2 THEN SinCos(q = 0, b) ELSE -SinCos(q = 2, b)
SinReduced(a) == SinQuadrant(Min(a \div HALFPI, 3), a - Min(a \div HALFPI, 3) * HALFPI)
\* Math.sin(r), r in 10^-8 radian, |r| < 21
Sin(r) == SinReduced(r % TWOPI)
\* Math.cos(r)
Cos(r) == Sin(r + HALFPI)

\* atan(w) for |w| <= tan(pi / 8): the series to w^19
RECURSIVE AtanSeries(_, _, _)
AtanSeries(w2, p, n) ==
  IF n < 1 THEN p ELSE AtanSeries(w2, Unit \div n - FMul(w2, p), n - 2)
AtanCore(w) == FMul(w, AtanSeries(FMul(w, w), Unit \div 19, 17))
\* tan(pi / 8) in 10^-8
TANPI8 == 41421356
\* atan(z) for 0 <= z <= 1, by atan z = pi / 4 + atan((z - 1) / (z + 1))
Atan01(z) ==
  IF z <= TANPI8 THEN AtanCore(z)
  ELSE QUARTERPI + AtanCore(-FDiv(Unit - z, z + Unit))
\* Math.atan(num / den) in 10^-8 radian; den = 0 is the infinite quotient
AtanRatio(num, den) ==
  LET s == Sgn(num) * Sgn(den)
      n == Abs(num)
      d == Abs(den)
  IN  IF num = 0 THEN 0
      ELSE IF d = 0 THEN s * HALFPI
      ELSE IF n <= d THEN s * Atan01(FDiv(n, d))
      ELSE s * (HALFPI - Atan01(FDiv(d, n)))

\* Math.sqrt(x), x in 10^-8 and near 1: Newton's iteration from 1
RECURSIVE SqrtIter(_, _, _)
SqrtIter(x, y, n) ==
  IF n = 0 THEN y ELSE SqrtIter(x, (y + FDiv(x, y)) \div 2, n - 1)
Sqrt(x) == SqrtIter(x, Unit, 6)

\* reals [nan, i, f]: i + f / 10^8 with 0 <= f < 10^8
NaNReal == [nan |-> TRUE, i |-> 0, f |-> 0]
Real(ii, ff) == [nan |-> FALSE, i |-> ii + ff \div Unit, f |-> ff % Unit]
RAdd(a, b) == IF a.nan \/ b.nan THEN NaNReal ELSE Real(a.i + b.i, a.f + b.f)
RNeg(a) ==
  IF a.nan THEN NaNReal
  ELSE IF a.f = 0 THEN Real(-a.i, 0) ELSE Real(-a.i - 1, Unit - a.f)
RSub(a, b) == RAdd(a, RNeg(b))
\* a <= b and a < b, false when either is NaN
RLe(a, b) == ~a.nan /\ ~b.nan /\ (a.i < b.i \/ (a.i = b.i /\ a.f <= b.f))
RLt(a, b) == ~a.nan /\ ~b.nan /\ (a.i < b.i \/ (a.i = b.i /\ a.f < b.f))
\* the real of a small number s (in 10^-8)
RSmall(s) == Real(s \div Unit, s % Unit)
\* a * n for an integer n, exact
RMulInt(a, n) ==
  LET h == MulDivQR(a.f, Abs(n), Unit)
      p == Real(a.i * Abs(n) + h[1], h[2])
  IN  IF a.nan THEN NaNReal ELSE IF n < 0 THEN RNeg(p) ELSE p

\* the real (to 10^-8 day) of a day count, and the day count (to a tick) of a real
CountToReal(c) ==
  IF c.nan THEN NaNReal
  ELSE Real(c.h \div 2, MulDivQR((c.h % 2) * HalfDayTicks + c.f, 390625, 2^23)[1])
RealToCount(r) ==
  IF r.nan THEN NaNCount
  ELSE LET t == 21 * r.f + FMul(r.f, 47483648)
           \* the spacing of the doubles at r, in ticks
           g == IF r.i < 2^22 THEN 1 ELSE 2^(Log2Floor(r.i) - 21)
           f == t % HalfDayTicks
       IN  MkCount(2 * r.i + t \div HalfDayTicks, f - (f % g))

(***************************************************************************)
(* lune.js: constants and functions.                                       *)
(***************************************************************************)
\* phase selectors NEW = 0 / 4.0 .. LAST = 3 / 4.0, in 10^-8
NEW_PHASE == 0
FIRST == 25000000
FULL == 50000000
LAST == 75000000
\* 1980 January 0.0 as a day count
EPOCH == Real(2444238, 50000000)
\* degrees, in micro-degrees
ECLIPTIC_LONGITUDE_EPOCH == 278833540
ECLIPTIC_LONGITUDE_PERIGEE == 282596403
MOON_MEAN_LONGITUDE_EPOCH == 64975464
MOON_MEAN_PERIGEE_EPOCH == 349383063
\* pure numbers and degrees of angular size, in 10^-8
ECCENTRICITY == 1671800
MOON_ECCENTRICITY == 5490000
SUN_ANGULAR_SIZE_SMAXIS == 53312800
MOON_ANGULAR_SIZE == 51810000
\* kilometres: in 0.1 km for the Sun, in 0.01 km for the Moon
SUN_SMAXIS == 1495850000
MOON_SMAXIS == 38440100
\* days
SYNODIC_MONTH == Real(29, 53058868)

\* a - 360.0 * Math.floor(a / 360.0), a in micro-degrees; and the remainder a % 360.0
\* of JavaScript, which has the sign of a
fixangle_Remainder(a) == Sgn(a) * (Abs(a) % C360)
fixangle(a) == a - C360 * (a \div C360)

\* Math.PI / 180 in 10^-10 and 180 / Math.PI in 10^-6
DEG2RAD == 174532925
RAD2DEG == 57295780
\* micro-degrees to 10^-8 radian and back
torad(d) == FMul(d, DEG2RAD)
todeg(r) == FMul(r, RAD2DEG)
dsin(d) == Sin(torad(d))
dcos(d) == Cos(torad(d))

\* (c * n) modulo 360 degrees, for a rate c in micro-degrees and an integer n
AngMul(c, n) ==
  IF n >= 0 THEN ModMul(c, n, C360) ELSE (C360 - ModMul(c, -n, C360)) % C360
\* the angle (ci + cf / 10^8) * x modulo 360 degrees, for a rate in micro-degrees per
\* unit and a real x
LinAngle(ci, cf, x) ==
  fixangle(AngMul(ci, x.i) + (FMul(x.i, cf) % C360) + FMul(ci, x.f))
\* c * s for a coefficient c in 10^-4: degrees (micro-degrees) or days (10^-8)
DegTerm(c, s) == MulDiv(s, c, 10^6)
DayTerm(c, s) == MulDiv(s, c, 10^4)

\* kepler: the tolerance 1e-6, and one pass of the body of its loop
epsilon == 100
kepler_delta(m, ecc, e) == e - FMul(ecc, Sin(e)) - m
kepler_e(m, ecc, e) ==
  e - FDiv(kepler_delta(m, ecc, e), Unit - FMul(ecc, Cos(e)))

\* phase, up to the call of kepler: day and the Sun's mean anomaly M
PhaseDay(phase_date) == RSub(CountToReal(fromDate(phase_date)), EPOCH)
PhaseM(d) ==
  fixangle(LinAngle(985647, 33209908, d) + ECLIPTIC_LONGITUDE_EPOCH
           - ECLIPTIC_LONGITUDE_PERIGEE)

\* SYNODIC_MONTH * a / 360 for an angle a in [0, 360), as a real number of days; and
\* the same with the month taken as its 29 whole days
AgeDays_WholeDays(a) ==
  LET h1 == MulDivQR(a \div 36, 10 * SYNODIC_MONTH.i, Unit)
  IN  Real(h1[1], h1[2] + (10 * SYNODIC_MONTH.i * (a % 36)) \div 36)
AgeDays(a) ==
  LET h1 == MulDivQR(a \div 36, 10 * SYNODIC_MONTH.i, Unit)
      h2 == (10 * FMul(SYNODIC_MONTH.f, a)) \div 36
  IN  Real(h1[1], h1[2] + h2 + (10 * SYNODIC_MONTH.i * (a % 36)) \div 36)
\* a / 360.0 in 10^-8, for an angle a in micro-degrees
Over360(a) == (a \div 36) * 10 + ((a % 36) * 10) \div 36

\* phase, from the result Ec of kepler to the object returned; each operator takes
\* the locals computed so far and computes the next ones
PhaseReturn(F, moon_age, moon_dist) ==
  [phase |-> Over360(fixangle(moon_age)),
   illuminated |-> (Unit - Cos(torad(moon_age))) \div 2,
   age |-> AgeDays(fixangle(moon_age)),
   distance |-> moon_dist,
   angular_diameter |-> FDiv(MOON_ANGULAR_SIZE, FDiv(moon_dist, MOON_SMAXIS)),
   sun_distance |-> FDiv(SUN_SMAXIS, F),
   sun_angular_diameter |-> FMul(F, SUN_ANGULAR_SIZE_SMAXIS)]
\* moon_dist; and the same with the distance left at the semi-major axis of the orbit
PhaseDistance_Circular(F, MmP, mEc, moon_age) ==
  PhaseReturn(F, moon_age, MOON_SMAXIS)
PhaseDistance(F, MmP, mEc, moon_age) ==
  PhaseReturn(F, moon_age,
    FDiv(FMul(MOON_SMAXIS, Unit - FMul(MOON_ECCENTRICITY, MOON_ECCENTRICITY)),
         Unit + FMul(MOON_ECCENTRICITY, Cos(torad(MmP + mEc)))))
\* variation, lPP and moon_age
PhaseVariation(lambda_sun, F, MmP, mEc, lP) ==
  PhaseDistance(F, MmP, mEc,
    lP + DegTerm(6583, Sin(torad(2 * (lP - lambda_sun)))) - lambda_sun)
\* lP
PhaseLongitude(lambda_sun, F, moon_longitude, evection, annual_eq, MmP, mEc, A4) ==
  PhaseVariation(lambda_sun, F, MmP, mEc, moon_longitude + evection + mEc - annual_eq + A4)
\* mEc and A4
PhaseCentre(lambda_sun, F, moon_longitude, evection, annual_eq, MmP) ==
  PhaseLongitude(lambda_sun, F, moon_longitude, evection, annual_eq, MmP,
    DegTerm(62886, Sin(torad(MmP))), DegTerm(2140, Sin(torad(2 * MmP))))
\* MmP
PhaseMmP(lambda_sun, F, moon_longitude, MM, evection, annual_eq, A3) ==
  PhaseCentre(lambda_sun, F, moon_longitude, evection, annual_eq,
    MM + evection - annual_eq - A3)
\* evection, annual_eq and A3
PhaseEvection(Mv, lambda_sun, F, moon_longitude, MM) ==
  PhaseMmP(lambda_sun, F, moon_longitude, MM,
    DegTerm(12739, Sin(torad(2 * (moon_longitude - lambda_sun) - MM))),
    DegTerm(1858, Sin(torad(Mv))),
    DegTerm(3700, Sin(torad(Mv))))
\* MM
PhaseMoonAnomaly(d, Mv, lambda_sun, F, moon_longitude) ==
  PhaseEvection(Mv, lambda_sun, F, moon_longitude,
    fixangle(moon_longitude - LinAngle(111404, 10000000, d) - MOON_MEAN_PERIGEE_EPOCH))
\* moon_longitude
PhaseMoon(d, Mv, lambda_sun, F) ==
  PhaseMoonAnomaly(d, Mv, lambda_sun, F,
    fixangle(LinAngle(13176396, 60000000, d) + MOON_MEAN_LONGITUDE_EPOCH))
\* lambda_sun and F
PhaseSun(d, Mv, Ec) ==
  PhaseMoon(d, Mv, fixangle(Ec + ECLIPTIC_LONGITUDE_PERIGEE),
    FDiv(Unit + FMul(ECCENTRICITY, Cos(torad(Ec))),
         Unit - FMul(ECCENTRICITY, ECCENTRICITY)))
\* the true anomaly Ec
PhaseResult(d, Mv, Ec0) ==
  PhaseSun(d, Mv,
    2 * todeg(AtanRatio(FMul(Sqrt(FDiv(Unit + ECCENTRICITY, Unit - ECCENTRICITY)),
                             Sin(Ec0 \div 2)),
                        Cos(Ec0 \div 2))))

\* the mean time of phase shared by meanphase and truephase:
\*   2415020.75933 + SYNODIC_MONTH * k + 0.0001178 * t2 - 0.000000155 * t3
\*     + 0.00033 * dsin(166.56 + 132.87 * t - 0.009173 * t2)
\* for a real k and t in 10^-6 century; t2 is kept in 10^-4, t3 in 10^-2
Square(t) == FMul(t, t)
Cube(t) == FMul(Square(t), t)
SynodicTimes(k) ==
  RAdd(RMulInt(SYNODIC_MONTH, k.i),
       RAdd(RMulInt(Real(0, k.f), SYNODIC_MONTH.i), RSmall(FMul(SYNODIC_MONTH.f, k.f))))
MeanTime(k, t) ==
  LET t2 == Square(t)
      t3 == Cube(t)
      a == 166560000 + AngMul(132, t) + MulDiv(t, 87, 100) - MulDiv(t2, 9173, 10000)
      s == MulDiv(t2, 1178, 1000) - MulDiv(t3, 155, 1000) + MulDiv(dsin(a), 33, 100000)
  IN  RAdd(RAdd(Real(2415020, 75933000), SynodicTimes(k)), RSmall(s))

\* meanphase(sdate, k): sdate a Date, or a number read as milliseconds
\* (NumberAsTime); t counts centuries from -2208945600000 ms, 1900-01-01T12:00Z
NumberAsTime(r) ==
  IF r.nan THEN InvalidDate ELSE MkDate(r.i \div MS_PER_DAY, r.i % MS_PER_DAY)
Century_FromJan12(sd) ==
  MulDivFloor(2 * sd.day + 51111 + sd.ms \div 43200000, 10^6, 73050)
  + (sd.ms % 43200000) \div 3155760
Century(sd) ==
  MulDivFloor(2 * sd.day + 51133 + sd.ms \div 43200000, 10^6, 73050)
  + (sd.ms % 43200000) \div 3155760
\* t of meanphase(sd, k), in 10^-6 century
MeanT(sd) == IF sd.valid THEN Num(Century(sd)) ELSE NaN
meanphase(sd, k) ==
  IF ~sd.valid \/ k.nan THEN NaNReal ELSE MeanTime(Real(k.v, 0), Century(sd))

\* truephase(k, tphase): k an integer, tphase in 10^-8; the Date of the corrected
\* phase, and whether a correction was applied (console.log otherwise)
TruePhaseSelected(tphase) ==
  \/ tphase < 1000000
  \/ Abs(tphase - 50000000) < 1000000
  \/ Abs(tphase - 25000000) < 1000000
  \/ Abs(tphase - 75000000) < 1000000
\* the test on tphase of the first branch (and the same with tphase >= 0 required),
\* and that of the second branch
TrueNewFull_NonNegative(tphase) ==
  (0 <= tphase /\ tphase < 1000000) \/ Abs(tphase - 50000000) < 1000000
TrueNewFull(tphase) == tphase < 1000000 \/ Abs(tphase - 50000000) < 1000000
TrueQuarter(tphase) == Abs(tphase - 25000000) < 1000000 \/ Abs(tphase - 75000000) < 1000000
\* the periodic terms after the first: <<c, i, j, l>> is c * dsin(i * m + j * mprime + l * f),
\* c in 10^-4 day
NewFullTerms ==
  << <<21, 2, 0, 0>>, <<-4068, 0, 1, 0>>, <<161, 0, 2, 0>>, <<-4, 0, 3, 0>>,
     <<104, 0, 0, 2>>, <<-51, 1, 1, 0>>, <<-74, 1, -1, 0>>, <<4, 1, 0, 2>>,
     <<-4, -1, 0, 2>>, <<-6, 0, 1, 2>>, <<10, 0, -1, 2>>, <<5, 1, 2, 0>> >>
QuarterTerms ==
  << <<21, 2, 0, 0>>, <<-6280, 0, 1, 0>>, <<89, 0, 2, 0>>, <<-4, 0, 3, 0>>,
     <<79, 0, 0, 2>>, <<-119, 1, 1, 0>>, <<-47, 1, -1, 0>>, <<3, 1, 0, 2>>,
     <<-4, -1, 0, 2>>, <<-6, 0, 1, 2>>, <<21, 0, -1, 2>>, <<3, 1, 2, 0>>,
     <<4, 1, -2, 0>>, <<-3, 2, 1, 0>> >>
RECURSIVE SumTerms(_, _, _, _, _)
SumTerms(terms, m, mprime, f, n) ==
  IF n = 0 THEN 0
  ELSE SumTerms(terms, m, mprime, f, n - 1)
       + DayTerm(terms[n][1],
                 dsin(terms[n][2] * m + terms[n][3] * mprime + terms[n][4] * f))
\* (c0 - c1 * t) * dsin(m) + the terms
Periodic(lead, terms, m, mprime, f) ==
  FMul(lead, dsin(m)) + SumTerms(terms, m, mprime, f, Len(terms))
\* 0.0028 - 0.0004 * dcos(m) + 0.0003 * dcos(mprime)
QuarterCorrection(m, mprime) == 280000 - DayTerm(4, dcos(m)) + DayTerm(3, dcos(mprime))
\* the sign of the quarter correction: added when tphase < 0.5, subtracted otherwise
QuadrantSign_Added(tphase) == 1
QuadrantSign(tphase) == IF tphase < 50000000 THEN 1 ELSE -1
TruePhaseCorrect(tphase, t, pt, m, mprime, f) ==
  IF TrueNewFull(tphase)
    THEN RAdd(pt, RSmall(Periodic(17340000 - MulDiv(t, 393, 10000), NewFullTerms,
                                  m, mprime, f)))
  ELSE IF TrueQuarter(tphase)
    THEN RAdd(pt, RSmall(Periodic(17210000 - MulDiv(t, 4, 100), QuarterTerms, m, mprime, f)
                         + QuadrantSign(tphase) * QuarterCorrection(m, mprime)))
  ELSE pt
\* m, mprime and f: the Sun's mean anomaly, the Moon's mean anomaly and the Moon's
\* argument of latitude; the sines and cosines that use them have period 360
TruePhaseM(k, t2, t3) ==
  fixangle(359224200 + LinAngle(29105356, 8000000, k)
           - MulDiv(t2, 333, 100000) - MulDiv(t3, 347, 10000))
TruePhaseMprime(k, t2, t3) ==
  fixangle(306025300 + LinAngle(385816918, 6000000, k)
           + MulDiv(t2, 107306, 100000) + MulDiv(t3, 1236, 10000))
TruePhaseF(k, t2, t3) ==
  fixangle(21296400 + LinAngle(390670506, 46000000, k)
           - MulDiv(t2, 16528, 100000) - MulDiv(t3, 239, 10000))
\* pt, m, mprime and f
TruePhaseAngles(k, t, t2, t3, tphase) ==
  TruePhaseCorrect(tphase, t, MeanTime(k, t),
    TruePhaseM(k, t2, t3), TruePhaseMprime(k, t2, t3), TruePhaseF(k, t2, t3))
\* t2 and t3
TruePhasePowers(k, t, tphase) == TruePhaseAngles(k, t, Square(t), Cube(t), tphase)
\* k and t
TruePhaseT(k0, tphase) == MulDivFloor(k0, Unit, 123685) + tphase \div 123685
TruePhaseTime(k0, tphase) ==
  TruePhasePowers(Real(k0, tphase), TruePhaseT(k0, tphase), tphase)
truephase(k, tphase) ==
  IF k.nan THEN InvalidDate ELSE toDate(RealToCount(TruePhaseTime(k.v, tphase)))

\* Date.prototype.getFullYear and getMonth at a local offset of tz minutes, as the
\* month count 12 * (year - 1900) + month; days are counted in the Gregorian calendar
LocalDay(date, offset) == date.day + (date.ms + offset * 60000) \div MS_PER_DAY
MonthIndex(z0) ==
  LET z == z0 + 719468
      era == z \div 146097
      doe == z % 146097
      yoe == (doe - doe \div 1460 + doe \div 36524 - doe \div 146096) \div 365
      doy == doe - (365 * yoe + yoe \div 4 - yoe \div 100)
      mp == (5 * doy + 2) \div 153
      mo == IF mp < 10 THEN mp + 2 ELSE mp - 10
      y == yoe + era * 400 + (IF mo <= 1 THEN 1 ELSE 0)
  IN  12 * (y - 1900) + mo
\* Math.floor((year + month * (1.0 / 12.0) - 1900) * 12.3685), for the month count n
SeedK(n) == MulDivFloor(n, 24737, 24000)
\* adate.setDate(adate.getDate() - 45), at a fixed local offset; and the same going
\* back twice as far
BackDays_Twice(date, x) == IF date.valid THEN MkDate(date.day - 2 * x, date.ms) ELSE InvalidDate
BackDays(date, x) == IF date.valid THEN MkDate(date.day - x, date.ms) ELSE InvalidDate

(***************************************************************************)
(* The module object and the locals of a call before they are assigned.    *)
(***************************************************************************)
\* module.exports of lune.js: the exported properties and their values
LuneExports == [phase |-> "function", phase_hunt |-> "function"]
LuneLoaded == exports = LuneExports

NoResult == [none |-> TRUE]
NoPrev == [set |-> FALSE]
LocalsUnset ==
  /\ iter = 0
  /\ day = NaNReal /\ M = NaN /\ kep_e = NaN
  /\ adate = NaNReal /\ sdate = NaNReal
  /\ k1 = NaN /\ k2 = NaN /\ nt1 = NaNReal /\ nt2 = NaNReal /\ mean_t = NaN
  /\ frame = NoResult /\ console = <<>>

(***************************************************************************)
(* A caller of julian.js: starts from a Date or from a day count and       *)
(* converts it back and forth.                                             *)
(***************************************************************************)
\* bounds of the inputs drawn
NumJDays == 30
NumJMs == 20
NumJHalfDays == 30
NumJTicks == 20
MaxConv == 2

\* 2000-01-01T00:00Z and 2016-03-16T16:19Z
Date2000 == MkDate(10957, 0)
Date20160316 == MkDate(16876, 58740000)
\* the doubles 2451544.5 and 2457464.179862
Count2451544_5 == MkCount(4903089, 0)
Count2457464_179862 == MkCount(4914928, 386250704)
\* a finite day count beyond the range of Date: 2440587.5 + 10^8 + 1 days
CountBeyondDates == MkCount(EPOCH_HALF_DAYS + 2 * MAX_DATE_DAYS + 2, 0)

JInstants ==
  {MkDate(6653 * i - 25567, (4319993 * j + i) % MS_PER_DAY) :
      i \in 0 .. NumJDays - 1, j \in 0 .. NumJMs - 1}
  \cup {MkDate(MAX_DATE_DAYS - 1 - 1000003 * i, (4319993 * i) % MS_PER_DAY) :
           i \in 0 .. NumJDays - 1}
  \cup {Date2000, Date20160316, MkDate(0, 0), MkDate(-1, MS_PER_DAY - 1),
        MkDate(MAX_DATE_DAYS, 0)}
JCounts ==
  {MkCount(2 * 2415020 + 12211 * i, (53687091 * j + 7 * i) % HalfDayTicks) :
      i \in 0 .. NumJHalfDays - 1, j \in 0 .. NumJTicks - 1}
  \cup {MkCount(EPOCH_HALF_DAYS + 2 * MAX_DATE_DAYS - 1 - 2000003 * i,
                 32 * ((1677721 * i) % (HalfDayTicks \div 32))) :
           i \in 0 .. NumJHalfDays - 1}
  \cup {Count2451544_5, Count2457464_179862, CountBeyondDates}

JulInit ==
  /\ jstep = 0
  /\ \/ /\ jsrc = "date"
        /\ jorig \in JInstants \cup {InvalidDate}
        /\ jdate = jorig
        /\ jnum = NaNCount
     \/ /\ jsrc = "num"
        /\ jorig \in JCounts \cup {NaNCount}
        /\ jnum = jorig
        /\ jdate = InvalidDate
  /\ jcur = jsrc
  /\ LuneLoaded
  /\ call = "none" /\ arg = InvalidDate /\ arg2 = InvalidDate /\ sel = 0
  /\ tz = 0 /\ pc = "done"
  /\ LocalsUnset
  /\ ret = NoResult /\ prev = NoPrev

\* julian.fromDate(jdate)
JFromDate ==
  /\ jcur = "date"
  /\ jstep < MaxConv
  /\ jnum' = fromDate(jdate)
  /\ jcur' = "num"
  /\ jstep' = jstep + 1
  /\ UNCHANGED <<jsrc, jorig, jdate, luneVars>>

\* julian.toDate(jnum)
JToDate ==
  /\ jcur = "num"
  /\ jstep < MaxConv
  /\ jdate' = toDate(jnum)
  /\ jcur' = "date"
  /\ jstep' = jstep + 1
  /\ UNCHANGED <<jsrc, jorig, jnum, luneVars>>

JulNext == JFromDate \/ JToDate

SpecJulian == JulInit /\ [][JulNext]_vars

\* |a - b| <= tol milliseconds, for Dates a and b
DatesWithin(a, b, tol) ==
  /\ a.valid /\ b.valid
  /\ Abs(a.day - b.day) <= 1
  /\ Abs((a.day - b.day) * MS_PER_DAY + a.ms - b.ms) <= tol
\* |a - b| <= tol ticks (2^-31 days), for day counts a and b
CountsWithin(a, b, tol) ==
  /\ ~a.nan /\ ~b.nan
  /\ Abs(a.h - b.h) <= 1
  /\ Abs((a.h - b.h) * HalfDayTicks + a.f - b.f) <= tol
\* One second is 2^31 / 86400 = 24855.13.. ticks, half a second 12427.56..
TicksBelowSecond == (HalfDayTicks - 1) \div 43200
TicksBelowHalfSecond == (HalfDayTicks - 1) \div 86400
\* |y - 2440587.5| <= 10^8 days: the instant of y is in the range of Date
InDateRange(y) ==
  LET hd == y.h - EPOCH_HALF_DAYS
  IN  /\ ~y.nan
      /\ hd >= -(2 * MAX_DATE_DAYS)
      /\ (hd < 2 * MAX_DATE_DAYS \/ (hd = 2 * MAX_DATE_DAYS /\ y.f = 0))

C1_Witness ==
  /\ jstep = 2 /\ jsrc = "date" /\ jorig.valid /\ jdate # jorig
CountOfTicks(d, T) ==
  MkCount(EPOCH_HALF_DAYS + 2 * d + (T \div HalfDayTicks), T % HalfDayTicks)
\* the day count ms / 86400000 + 2440587.5 of a Date, rounded down to a tick
LinearCount(date) == CountOfTicks(date.day, DivTicks(date.ms)[1])

\* the spacing of the doubles around the day count y, in ticks (y >= 2^21 days)
UlpTicks(y) == 2^(Log2Floor(y.h \div 2) - 21)

\* C2: the converter is the linear map day = ms / 86400000 + 2440587.5 and its inverse:
\* fromDate of a Date is the linear value to within one spacing of the doubles, toDate of a
\* day count is a Date whose linear value is within one millisecond (25 ticks) of it;
\* fromDate(2000-01-01T00:00Z) is 2451544.5 within 0.5 s and toDate(2457464.179862) is
\* within 500 ms of 2016-03-16T16:19Z.
C2_LinearMap ==
  /\ (jstep >= 1 /\ jcur = "num" /\ jdate.valid) =>
        CountsWithin(jnum, LinearCount(jdate), UlpTicks(jnum))
  /\ (jstep >= 1 /\ jcur = "date" /\ InDateRange(jnum)) =>
        /\ jdate.valid
        /\ CountsWithin(LinearCount(jdate), jnum, 25)
  /\ (jstep = 1 /\ jsrc = "date" /\ jorig = Date2000) =>
        CountsWithin(jnum, Count2451544_5, TicksBelowHalfSecond)
  /\ (jstep = 1 /\ jsrc = "num" /\ jorig = Count2457464_179862) =>
        DatesWithin(jdate, Date20160316, 500)

\* toDate(2457464.179862) has been computed
C2_Witness ==
  jstep = 1 /\ jsrc = "num" /\ jorig = Count2457464_179862 /\ jdate.valid
\* fromDate(2000-01-01T00:00Z) has been computed
C2_WitnessFromDate ==
  jstep = 1 /\ jsrc = "date" /\ jorig = Date2000 /\ ~jnum.nan

(***************************************************************************)
(* A caller of lune.js: one call of phase or of phase_hunt with a Date, in *)
(* an environment whose local time is tz minutes east of UTC, followed     *)
(* (for phase_hunt) by the same call in an environment of another offset.  *)
(***************************************************************************)
\* bounds of the inputs drawn, and of the passes followed through a loop
NumLDays == 40
NumLMs == 2
NumPDays == 300
MaxIter == 101

\* 2014-11-01T10:26Z (2014-11-01T06:26-0400) and 2014-02-17T05:00Z
Date20141101 == MkDate(16375, 37560000)
Date20140217 == MkDate(16118, 18000000)
\* 1937-01-12T09:40:03.357Z and 8399-06-15T00:30Z
Date19370112 == MkDate(-12042, 34803357)
Date83990615 == MkDate(2348309, 1800000)
\* 2013-11-03T07:52:12.683Z, the mean new moon of lunation 1408 as phase_hunt computes it
Date20131103 == MkDate(16012, 28332683)
\* 1900-02-15T12:00Z and 1900-02-26T00:00Z, 45 days after 1900-01-01T12:00Z and
\* after 1900-01-12T00:00Z
Date19000215 == MkDate(-25522, 43200000)
Date19000226 == MkDate(-25511, 0)

LInstants ==
  {MkDate(1873 * i - 25567, (43199993 * j + 1234567 * i) % MS_PER_DAY) :
      i \in 0 .. NumLDays - 1, j \in 0 .. NumLMs - 1}
  \cup {Date20141101, Date20140217, Date19370112, Date83990615, Date20131103,
        Date19000215, Date19000226}
\* the instants passed to phase: those and a finer grid over the same years
PInstants ==
  LInstants
  \cup {MkDate(241 * i - 25567, (287321 * i) % MS_PER_DAY) : i \in 0 .. NumPDays - 1}
Timezones == {-240, 0, 330}

LuneInit ==
  /\ jsrc = "none" /\ jorig = InvalidDate /\ jcur = "none"
  /\ jdate = InvalidDate /\ jnum = NaNCount /\ jstep = 0
  /\ LuneLoaded
  /\ call \in {"phase", "phase_hunt"}
  /\ arg \in (IF call = "phase" THEN PInstants ELSE LInstants) \cup {InvalidDate}
  /\ arg2 = InvalidDate /\ sel = 0
  /\ tz \in Timezones
  /\ call = "phase" => tz = 0
  /\ pc = "start"
  /\ LocalsUnset
  /\ ret = NoResult /\ prev = NoPrev

huntLocals == <<adate, sdate, k1, k2, nt1, nt2, mean_t>>
innerVars == <<frame, console>>
phaseLocals == <<day, M, kep_e>>
callEnv == <<exports, call, arg, arg2, sel, tz, prev>>

\* phase(arg), up to the entry of kepler's loop
PhaseStart ==
  /\ call = "phase" /\ pc = "start"
  /\ LET d == PhaseDay(arg)
         Mv == IF d.nan THEN NaN ELSE Num(PhaseM(d))
     IN  /\ day' = d
         /\ M' = Mv
         /\ kep_e' = IF Mv.nan THEN NaN ELSE Num(torad(Mv.v))
  /\ pc' = "kepler" /\ iter' = 0
  /\ UNCHANGED <<julVars, innerVars, callEnv, huntLocals, ret>>

\* delta and the next e of one pass through kepler's loop
KeplerDelta == IF kep_e.nan THEN NaN ELSE Num(kepler_delta(torad(M.v), ECCENTRICITY, kep_e.v))
KeplerE == IF kep_e.nan THEN NaN ELSE Num(kepler_e(torad(M.v), ECCENTRICITY, kep_e.v))
KeplerConverged == ~KeplerDelta.nan /\ Abs(KeplerDelta.v) <= epsilon

\* a pass through kepler's loop that does not break
KeplerIterate ==
  /\ pc = "kepler" /\ iter < MaxIter
  /\ ~KeplerConverged
  /\ kep_e' = KeplerE
  /\ iter' = iter + 1
  /\ UNCHANGED <<julVars, innerVars, callEnv, huntLocals, day, M, pc, ret>>

\* the pass through kepler's loop that breaks, and the rest of phase
KeplerReturn ==
  /\ pc = "kepler" /\ iter < MaxIter
  /\ KeplerConverged
  /\ kep_e' = KeplerE
  /\ iter' = iter + 1
  /\ ret' = PhaseResult(day, M.v, KeplerE.v)
  /\ pc' = "done"
  /\ UNCHANGED <<julVars, innerVars, callEnv, huntLocals, day, M>>

\* The instant held by the caller's Date once phase_hunt has stepped back 45 days:
\* setDate is applied to adate, a copy made by new Date(sdate.getTime())
HuntCallerDate_InPlace == BackDays(arg, 45)
HuntCallerDate == arg

\* phase_hunt(arg), up to the entry of its loop
HuntStart ==
  /\ call = "phase_hunt" /\ pc = "start"
  /\ LET a0 == BackDays(arg, 45)
         k == IF a0.valid THEN Num(SeedK(MonthIndex(LocalDay(a0, tz)))) ELSE NaN
         n1 == meanphase(a0, k)
     IN  /\ k1' = k
         /\ nt1' = n1
         /\ adate' = n1
         /\ mean_t' = MeanT(a0)
  /\ arg' = HuntCallerDate
  /\ sdate' = CountToReal(fromDate(arg))
  /\ pc' = "search" /\ iter' = 0
  /\ UNCHANGED <<julVars, innerVars, exports, call, arg2, sel, tz, prev, phaseLocals,
                 k2, nt2, ret>>

\* phase_names and tphases: the selector passed to truephase for each property; and
\* the same with the selectors of the quarters exchanged
phase_names_Exchanged ==
  [new_date |-> NEW_PHASE, q1_date |-> LAST, full_date |-> FULL, q3_date |-> FIRST,
   nextnew_date |-> NEW_PHASE]
phase_names ==
  [new_date |-> NEW_PHASE, q1_date |-> FIRST, full_date |-> FULL, q3_date |-> LAST,
   nextnew_date |-> NEW_PHASE]

\* the properties in the order they are computed in
HuntCalls == <<"new_date", "q1_date", "full_date", "q3_date", "nextnew_date">>

\* adate, k2 and nt2 of one pass through phase_hunt's loop
HuntAdate == RAdd(adate, SYNODIC_MONTH)
HuntK2_Same == k1
HuntK2 == IF k1.nan THEN NaN ELSE Num(k1.v + 1)
HuntNt2 == meanphase(NumberAsTime(HuntAdate), HuntK2)
HuntFound_LowerOnly == RLe(nt1, sdate)
HuntFound == RLe(nt1, sdate) /\ RLt(sdate, HuntNt2)

\* a pass through phase_hunt's loop that does not break
HuntIterate ==
  /\ pc = "search" /\ iter < MaxIter
  /\ ~HuntFound
  /\ adate' = HuntAdate
  /\ k2' = HuntK2
  /\ nt2' = HuntNt2
  /\ mean_t' = MeanT(NumberAsTime(HuntAdate))
  /\ nt1' = HuntNt2
  /\ k1' = HuntK2
  /\ iter' = iter + 1
  /\ UNCHANGED <<julVars, innerVars, callEnv, phaseLocals, sdate, pc, ret>>

\* the pass through phase_hunt's loop that breaks, and the five calls of truephase
HuntReturn ==
  /\ pc = "search" /\ iter < MaxIter
  /\ HuntFound
  /\ adate' = HuntAdate
  /\ k2' = HuntK2
  /\ nt2' = HuntNt2
  /\ mean_t' = MeanT(NumberAsTime(HuntAdate))
  /\ iter' = iter + 1
  /\ ret' = [n \in DOMAIN phase_names |->
               truephase(IF n = "nextnew_date" THEN HuntK2 ELSE k1, phase_names[n])]
  /\ console' = console \o SelectSeq([i \in DOMAIN HuntCalls |-> phase_names[HuntCalls[i]]],
                                     LAMBDA s : ~TruePhaseSelected(s))
  /\ pc' = "done"
  /\ UNCHANGED <<julVars, frame, callEnv, phaseLocals, sdate, k1, nt1>>

\* phase_hunt(arg) is called again where the local offset is another one
Rehunt ==
  /\ call = "phase_hunt" /\ pc = "done" /\ ~prev.set
  /\ \E z \in Timezones \ {tz} : tz' = z
  /\ prev' = [set |-> TRUE, tz |-> tz, ret |-> ret]
  /\ pc' = "start" /\ iter' = 0
  /\ adate' = NaNReal /\ sdate' = NaNReal
  /\ k1' = NaN /\ k2' = NaN /\ nt1' = NaNReal /\ nt2' = NaNReal /\ mean_t' = NaN
  /\ ret' = NoResult
  /\ UNCHANGED <<julVars, innerVars, exports, call, arg, arg2, sel, phaseLocals>>

LuneNext ==
  \/ PhaseStart \/ KeplerIterate \/ KeplerReturn
  \/ HuntStart \/ HuntIterate \/ HuntReturn \/ Rehunt

SpecLune == LuneInit /\ [][LuneNext]_vars

(***************************************************************************)
(* Properties of phase and phase_hunt.                                     *)
(***************************************************************************)
PhaseReturned == call = "phase" /\ pc = "done"
HuntReturned == call = "phase_hunt" /\ pc = "done"
\* Dates a and b are valid and a is not after (is before) b
DateLe(a, b) ==
  a.valid /\ b.valid /\ (a.day < b.day \/ (a.day = b.day /\ a.ms <= b.ms))
DateLt(a, b) ==
  a.valid /\ b.valid /\ (a.day < b.day \/ (a.day = b.day /\ a.ms < b.ms))

C3_Witness ==
  PhaseReturned /\ arg = Date20140217 /\ ret.phase > FULL /\ ret.illuminated > 90000000
C4_Ordered ==
  (HuntReturned /\ arg.valid) =>
     /\ DateLe(ret.new_date, ret.q1_date)
     /\ DateLe(ret.q1_date, ret.full_date)
     /\ DateLe(ret.full_date, ret.q3_date)
     /\ DateLe(ret.q3_date, ret.nextnew_date)

\* phase_hunt(2014-11-01T10:26Z) has returned the five Dates of that lunation
C4_Witness ==
  HuntReturned /\ arg = Date20141101 /\ ret.new_date.day = 16366
  /\ ret.nextnew_date.day = 16396

\* C5: for a valid instant, the new moons returned by phase_hunt bracket it:
\* new_date <= arg < nextnew_date.
C5_Brackets ==
  (HuntReturned /\ arg.valid) =>
     DateLe(ret.new_date, arg) /\ DateLt(arg, ret.nextnew_date)

\* C6: what phase_hunt returns for an instant does not depend on the local offset: the
\* call made again under another offset returns the same five Dates (it is never in its
\* loop with the lower mean new moon nt1 past the instant, from where it cannot
\* return), and 2014-11-01T06:26-0400 gives a full_date within 500 ms of 1415312577000.
C6_OffsetIndependent ==
  /\ (HuntReturned /\ prev.set) => ret = prev.ret
  /\ (call = "phase_hunt" /\ pc = "search" /\ prev.set) => RLe(nt1, sdate)
  /\ (HuntReturned /\ arg = Date20141101) =>
        DatesWithin(ret.full_date, MkDate(16380, 80577000), 500)

\* C7: phase and phase_hunt called with an invalid Date fail with an error before
\* anything is computed.
C7_InvalidDateRejected ==
  (call \in {"phase", "phase_hunt"} /\ ~arg.valid /\ pc # "start") => pc = "error"

\* C8: phase_hunt returns for every valid instant: its loop is never at a pass with the
\* lower mean new moon nt1 past the instant, from where no later pass can break (nt1
\* only grows).
C8_SearchCanEnd ==
  (call = "phase_hunt" /\ arg.valid /\ pc = "search") => RLe(nt1, sdate)

\* the number of passes after which a capped loop gives up
ITERATION_CAP == 100
\* C9: no loop goes on beyond the cap on its passes: once ITERATION_CAP passes are made
\* the call has ended, by a result or by a failure.
C9_LoopsCapped ==
  (call \in {"phase", "phase_hunt"} /\ iter >= ITERATION_CAP) => pc \in {"done", "error"}

\* C10: the module exports phase, phase_hunt and phase_range, and the selectors
\* PHASE_NEW = 0, PHASE_FIRST = 1, PHASE_FULL = 2 and PHASE_LAST = 3.
C10_Exports ==
  /\ {"phase", "phase_hunt", "phase_range",
      "PHASE_NEW", "PHASE_FIRST", "PHASE_FULL", "PHASE_LAST"} \subseteq DOMAIN exports
  /\ exports.PHASE_NEW = 0 /\ exports.PHASE_FIRST = 1
  /\ exports.PHASE_FULL = 2 /\ exports.PHASE_LAST = 3

(***************************************************************************)
(* phase_range(start, end, phase): the instants of one phase within a      *)
(* range of dates.  lib/lune.js does not define it; it is declared in the  *)
(* type declarations, used by the README and by test/index.js, and its     *)
(* steps are those the specification gives in section 4.6: validate both   *)
(* dates, exchange them when end is before start, seed k 45 days before    *)
(* start as phase_hunt does, advance k until truephase(k, phase) is not    *)
(* before start, and collect while it is not after end.  SeedK, MonthIndex,*)
(* BackDays and truephase are those of lib/lune.js.                        *)
(***************************************************************************)
\* bounds of the ranges drawn
NumRDays == 8
RangeSpans == {0, 20, 75}

\* 1989-01-01T00:00Z .. 1989-10-01T00:00Z, the range of test/index.js
Date19890101 == MkDate(6940, 0)
Date19891001 == MkDate(7213, 0)
\* 2014-01-01T00:00Z .. 2014-03-31T23:59:59.999Z, the range of the README
Date20140101 == MkDate(16071, 0)
Date20140331 == MkDate(16160, 86399999)
\* 2014-11-06T22:22:56.654Z, the full moon truephase(1420, 0.5) returns
Date20141106 == MkDate(16380, 80576654)
\* 10000-08-15T00:30Z
Date100000815 == MkDate(2933124, 1800000)

\* the phases observed in 1989-01-01 .. 1989-10-01, by selector (observations)
ObservedCount == <<10, 9, 9, 9>>

\* PHASE_NEW .. PHASE_LAST, and the tphase truephase is given for a selector
Selectors == 0 .. 3
SelectorPhase(s) == 25000000 * (s % 4)

RangePairs ==
  {<<MkDate(9001 * i - 25500, (5432123 * i) % MS_PER_DAY),
     MkDate(9001 * i - 25500 + n, (5432123 * i + 777 * n) % MS_PER_DAY)>> :
      i \in 0 .. NumRDays - 1, n \in RangeSpans}
  \cup {<<Date19890101, Date19891001>>, <<Date20140101, Date20140331>>,
        <<Date20141106, Date20141106>>, <<Date20141106, BackDays(Date20141106, 30)>>,
        <<Date100000815, BackDays(Date100000815, -40)>>,
        <<InvalidDate, Date19890101>>, <<Date19890101, InvalidDate>>}

\* the module object once phase_range is exported
RangeExports == [n \in DOMAIN LuneExports \cup {"phase_range"} |-> "function"]

RangeInit ==
  /\ jsrc = "none" /\ jorig = InvalidDate /\ jcur = "none"
  /\ jdate = InvalidDate /\ jnum = NaNCount /\ jstep = 0
  /\ exports = RangeExports
  /\ call = "phase_range"
  /\ \E p \in RangePairs : arg = p[1] /\ arg2 = p[2]
  /\ sel \in Selectors
  /\ tz = 0
  /\ pc = "start"
  /\ LocalsUnset
  /\ ret = NoResult /\ prev = NoPrev

\* start and end once exchanged when end is before start; and start left as passed
RangeFrom_AsPassed == arg
RangeFrom == IF DateLt(arg2, arg) THEN arg2 ELSE arg
RangeTo == IF DateLt(arg2, arg) THEN arg ELSE arg2
\* the seed of k, from 45 days before start
RangeSeed == SeedK(MonthIndex(LocalDay(BackDays(RangeFrom, 45), tz)))
\* truephase(k, phase) of the current k
RangeInstant == truephase(k1, SelectorPhase(sel))

rangeLocals == <<adate, sdate, k2, nt1, nt2, mean_t>>

\* a date that is not a valid instant is refused
RangeReject ==
  /\ call = "phase_range" /\ pc = "start"
  /\ ~(arg.valid /\ arg2.valid)
  /\ pc' = "error"
  /\ UNCHANGED <<julVars, innerVars, callEnv, phaseLocals, rangeLocals, k1, iter, ret>>

\* the dates are ordered and k is seeded
RangeStart ==
  /\ call = "phase_range" /\ pc = "start"
  /\ arg.valid /\ arg2.valid
  /\ k1' = Num(RangeSeed)
  /\ ret' = <<>>
  /\ pc' = "skip" /\ iter' = 0
  /\ UNCHANGED <<julVars, innerVars, callEnv, phaseLocals, rangeLocals>>

\* the phase of k at instant t is before start: k advances
RangeSkipAt(t) ==
  /\ DateLt(t, RangeFrom)
  /\ k1' = Num(k1.v + 1)
  /\ iter' = iter + 1
  /\ UNCHANGED <<julVars, innerVars, callEnv, phaseLocals, rangeLocals, pc, ret>>
\* the phase of k at instant t is within the range: it is collected and k advances
RangeCollectAt(t) ==
  /\ pc = "collect" \/ ~DateLt(t, RangeFrom)
  /\ DateLe(t, RangeTo)
  /\ ret' = Append(ret, t)
  /\ k1' = Num(k1.v + 1)
  /\ iter' = iter + 1
  /\ pc' = "collect"
  /\ UNCHANGED <<julVars, innerVars, callEnv, phaseLocals, rangeLocals>>
\* the phase of k at instant t is after end: the instants collected are returned
RangeReturnAt(t) ==
  /\ pc = "collect" \/ ~DateLt(t, RangeFrom)
  /\ ~DateLe(t, RangeTo)
  /\ pc' = "done"
  /\ UNCHANGED <<julVars, innerVars, callEnv, phaseLocals, rangeLocals, k1, iter, ret>>

RangeSkip ==
  /\ call = "phase_range" /\ pc = "skip" /\ iter < MaxIter
  /\ RangeSkipAt(RangeInstant)
RangeCollect ==
  /\ call = "phase_range" /\ pc \in {"skip", "collect"} /\ iter < MaxIter
  /\ RangeCollectAt(RangeInstant)
RangeReturn ==
  /\ call = "phase_range" /\ pc \in {"skip", "collect"} /\ iter < MaxIter
  /\ RangeReturnAt(RangeInstant)

\* phase_range is called again with the two dates exchanged
Rerange ==
  /\ call = "phase_range" /\ pc = "done" /\ ~prev.set
  /\ arg' = arg2 /\ arg2' = arg
  /\ prev' = [set |-> TRUE, tz |-> tz, ret |-> ret]
  /\ pc' = "start" /\ iter' = 0
  /\ k1' = NaN
  /\ ret' = NoResult
  /\ UNCHANGED <<julVars, innerVars, exports, call, sel, tz, phaseLocals, rangeLocals>>

RangeNext ==
  \/ RangeReject \/ RangeStart \/ RangeSkip \/ RangeCollect \/ RangeReturn \/ Rerange

SpecRange == RangeInit /\ [][RangeNext]_vars

RangeReturned == call = "phase_range" /\ pc = "done"

(***************************************************************************)
(* Properties of phase_range.                                              *)
(***************************************************************************)
\* the lunations looked at on either side of those collected
RangeMargin == 3
DateWithin(t, a, b) == DateLe(a, t) /\ DateLe(t, b)
\* the instants returned are in ascending order and within [start, end]
RangeAscending == \A i \in 1 .. Len(ret) - 1 : DateLt(ret[i], ret[i + 1])
RangeOnly == \A i \in 1 .. Len(ret) : DateWithin(ret[i], RangeFrom, RangeTo)
\* no phase of a lunation before the first or after the last collected is within
\* [start, end]: k1 - Len(ret) is the first lunation collected
RangeNoneMissing ==
  \A j \in 1 .. RangeMargin :
     /\ ~DateWithin(truephase(Num(k1.v - Len(ret) - j), SelectorPhase(sel)), RangeFrom, RangeTo)
     /\ ~DateWithin(truephase(Num(k1.v + j - 1), SelectorPhase(sel)), RangeFrom, RangeTo)
RangeIsTest == RangeFrom = Date19890101 /\ RangeTo = Date19891001

\* C11: phase_range(start, end, selector) returns, in ascending order, all and only
\* the instants of the selected phase within [start, end]: every instant returned is
\* within the range, none of that phase within the range is missing, and for
\* 1989-01-01 .. 1989-10-01 as many are returned as were observed of that phase.
C11_AllAndOnly ==
  RangeReturned =>
    /\ RangeAscending
    /\ RangeOnly
    /\ RangeNoneMissing
    /\ RangeIsTest => Len(ret) = ObservedCount[sel + 1]

\* C12: phase_range is symmetric in its two dates: called with the dates exchanged
\* (end before start) it returns the same sequence of instants.
C12_Symmetric ==
  RangeReturned /\ prev.set => ret = prev.ret
\* both calls have returned, the second with end before start, with several instants
C12_Witness ==
  RangeReturned /\ prev.set /\ DateLt(arg2, arg) /\ Len(ret) > 1 /\ ret = prev.ret

(***************************************************************************)
(* The converter on values that are not instants.                          *)
(***************************************************************************)
\* the caller started from an Invalid Date, or from a day count that is NaN
JNotAnInstant ==
  \/ jsrc = "date" /\ ~jorig.valid
  \/ jsrc = "num" /\ jorig.nan

\* C13: given a day count that is not finite or a Date backed by NaN, the converter
\* fails with an input-validation error: it does not return NaN or an Invalid Date.
C13_NotAnInstantRejected ==
  JNotAnInstant /\ jstep >= 1 =>
    /\ jcur = "num" => ~jnum.nan
    /\ jcur = "date" => jdate.valid

(***************************************************************************)
(* Further properties of phase.                                            *)
(***************************************************************************)
\* p * 29.53058868 for a fraction p in 10^-8, as a real number of days
PhaseTimesMonth(p) ==
  RAdd(RMulInt(Real(0, p), SYNODIC_MONTH.i), RSmall(FMul(SYNODIC_MONTH.f, p)))
\* a and b differ by at most e (in 10^-8)
RNear(a, b, e) == RLe(RSub(a, b), Real(0, e)) /\ RLe(RSub(b, a), Real(0, e))
\* phase is held to 10^-8, so its product with the month is held to 30 * 10^-8 day
AgeTolerance == 40

\* C14: in the object phase returns, age is phase * 29.53058868 (the fraction of the
\* lunation elapsed, in days), to within the resolution of the numbers.
C14_AgeIsPhaseTimesMonth ==
  (PhaseReturned /\ arg.valid) => RNear(ret.age, PhaseTimesMonth(ret.phase), AgeTolerance)
\* phase(2014-02-17T05:00Z) has returned a phase of 0.56820464 and an age in its 17th day
C14_Witness ==
  PhaseReturned /\ arg = Date20140217 /\ ret.phase = 56820464 /\ ret.age.i = 16

HuntExpected ==
  [new_date |-> <<0, 0>>, q1_date |-> <<0, 25000000>>, full_date |-> <<0, 50000000>>,
   q3_date |-> <<0, 75000000>>, nextnew_date |-> <<1, 0>>]

\* C16: when phase_hunt leaves its loop, nt1 <= the day count of the instant < nt2 and
\* k2 = k1 + 1, and the five Dates returned are truephase(k1, NEW), truephase(k1, FIRST),
\* truephase(k1, FULL), truephase(k1, LAST) and truephase(k2, NEW).
C16_LoopExit ==
  (HuntReturned /\ arg.valid) =>
     /\ RLe(nt1, sdate) /\ RLt(sdate, nt2)
     /\ k2.v = k1.v + 1
     /\ DOMAIN ret = DOMAIN HuntExpected
     /\ \A n \in DOMAIN HuntExpected :
          ret[n] = truephase(Num(k1.v + HuntExpected[n][1]), HuntExpected[n][2])
\* phase_hunt has returned for an instant that is a mean new moon: it is the lower end
\* of the bracket found, of lunation 1408
C16_Witness ==
  HuntReturned /\ arg = Date20131103 /\ sdate = nt1 /\ k1.v = 1408 /\ k2.v = 1409

\* a pass through phase_hunt's loop, on a valid instant, that does not break
HuntFailedPass == call = "phase_hunt" /\ arg.valid /\ pc = "search" /\ pc' = "search"

C18_SeedBeforeInstant ==
  (call = "phase_hunt" /\ arg.valid /\ pc = "search" /\ iter = 0) => RLe(nt1, sdate)

\* an instant of the years 1900 to 2100 (1900-01-01T00:00Z up to 2101-01-01T00:00Z)
InYears1900To2100(d) == d.valid /\ -25567 <= d.day /\ d.day < 47847

\* C19, as the claim has it: for an instant of the years 1900 to 2100 phase_hunt's loop
\* finds the bracket within at most 3 passes through its body.
C19_AtMostThree ==
  (HuntReturned /\ InYears1900To2100(arg)) => iter <= 3
\* C19, amended: for an instant of the years 1900 to 2100 phase_hunt's loop finds the
\* bracket within at most 4 passes through its body (the pass that breaks included).
C19_AtMostFour ==
  (call = "phase_hunt" /\ InYears1900To2100(arg)) =>
     /\ iter <= 4
     /\ pc = "search" => iter < 4
\* phase_hunt has returned for 1937-01-12T09:40:03.357Z at its 4th pass
C19_Witness ==
  HuntReturned /\ arg = Date19370112 /\ iter = 4

\* phase_hunt has just called meanphase(adate, k1) with adate 45 days before the instant
MeanPhaseOfDate == call = "phase_hunt" /\ arg.valid /\ pc = "search" /\ iter = 0
\* the half days from 1900-01-01T12:00Z to a Date, rounded down
HalfDaysFrom1900(d) == 2 * d.day + 51133 + d.ms \div 43200000

Angle(w, n, e) == [w |-> w, n |-> n, e |-> e]
\* the doubles of [256, 512) are the multiples of 2^-44
FoldExp == 44
\* bounds of the angles drawn: n / 2^e for |n| <= NumFoldN and FoldMinExp <= e <= FoldMaxExp
NumFoldN == 5
FoldMinExp == 42
FoldMaxExp == 47
FoldAngles ==
  {Angle(w, 0, 0) : w \in {-725, -720, -361, -360, -359, -90, -1, 0, 1, 90, 359, 360, 361, 720}}
  \cup {Angle(0, n, e) : n \in (-NumFoldN .. NumFoldN) \ {0}, e \in FoldMinExp .. FoldMaxExp}

\* a - 360.0 * Math.floor(a / 360.0) in doubles.  For whole degrees the quotient is
\* never rounded across a whole number and the product and the difference are exact.
\* Below one degree Math.floor gives 0 for a > 0 and the result is a; it gives -1 for
\* a < 0 and the result is the double nearest to a + 360, ties to even
fixangleDouble(a) ==
  IF a.n = 0 THEN Angle(a.w - 360 * (a.w \div 360), 0, 0)
  ELSE IF a.n > 0 THEN a
  ELSE IF a.e <= FoldExp THEN Angle(360, a.n, a.e)
  ELSE Angle(360, -(RoundGrid(-a.n, 0, 2^(a.e - FoldExp)) \div 2^(a.e - FoldExp)), FoldExp)
\* the indices drawn: NumTrueK lunations from 1408 (November 2013), and lunation -1
NumTrueK == 12
TrueIndices == {-1} \cup {1408 + 97 * i : i \in 0 .. NumTrueK - 1}
\* the selectors drawn, in 10^-8: the four constants, values next to them and at the
\* bounds of the tests, values that match none, negative values and whole numbers
TrueSelectors ==
  {NEW_PHASE, FIRST, FULL, LAST}
  \cup {500000, 999999, 1000000, 24000001, 25500000, 49000000, 50999999, 75999999, 76000000}
  \cup {10000000, 30000000, 60000000, 90000000}
  \cup {-1, -25000000, -50000000, -100000000}
  \cup {Unit, 2 * Unit, 3 * Unit, 4 * Unit, 5 * Unit}

InnerInit ==
  /\ jsrc = "none" /\ jorig = InvalidDate /\ jcur = "none"
  /\ jdate = InvalidDate /\ jnum = NaNCount /\ jstep = 0
  /\ LuneLoaded
  /\ call \in {"truephase", "fixangle"}
  /\ arg = InvalidDate /\ arg2 = InvalidDate
  /\ sel \in (IF call = "truephase" THEN TrueSelectors ELSE {0})
  /\ tz = 0
  /\ pc = "start"
  /\ iter = 0
  /\ day = NaNReal /\ M = NaN /\ kep_e = NaN
  /\ adate = NaNReal /\ sdate = NaNReal
  /\ k1 \in (IF call = "truephase" THEN {Num(k) : k \in TrueIndices} ELSE {NaN})
  /\ k2 = NaN /\ nt1 = NaNReal /\ nt2 = NaNReal /\ mean_t = NaN
  /\ frame \in (IF call = "truephase" THEN {NoResult} ELSE FoldAngles)
  /\ console = <<>>
  /\ ret = NoResult /\ prev = NoPrev

\* truephase(k1, sel) up to its first test: k, t, pt, m, mprime and f
TrueStart ==
  /\ call = "truephase" /\ pc = "start"
  /\ LET k == Real(k1.v, sel)
         t == TruePhaseT(k1.v, sel)
     IN  frame' = [k |-> k, t |-> t, pt |-> MeanTime(k, t),
                   m |-> TruePhaseM(k, Square(t), Cube(t)),
                   mprime |-> TruePhaseMprime(k, Square(t), Cube(t)),
                   f |-> TruePhaseF(k, Square(t), Cube(t)),
                   apcor |-> FALSE, terms |-> 0]
  /\ pc' = "correct"
  /\ UNCHANGED <<julVars, console, callEnv, phaseLocals, huntLocals, iter, ret>>

\* the number of dsin terms of the series applied for a selector
TrueTerms(tphase) ==
  IF TrueNewFull(tphase) THEN 1 + Len(NewFullTerms)
  ELSE IF TrueQuarter(tphase) THEN 1 + Len(QuarterTerms)
  ELSE 0

\* the two tests on tphase and the corrections of pt
TrueCorrect ==
  /\ call = "truephase" /\ pc = "correct"
  /\ frame' = [frame EXCEPT
                 !.pt = TruePhaseCorrect(sel, frame.t, frame.pt, frame.m, frame.mprime,
                                         frame.f),
                 !.apcor = TruePhaseSelected(sel),
                 !.terms = TrueTerms(sel)]
  /\ pc' = "return"
  /\ UNCHANGED <<julVars, console, callEnv, phaseLocals, huntLocals, iter, ret>>

\* console.log when no correction was applied, and return julian.to_date(pt)
TrueReturn ==
  /\ call = "truephase" /\ pc = "return"
  /\ console' = IF frame.apcor THEN console ELSE Append(console, sel)
  /\ ret' = toDate(RealToCount(frame.pt))
  /\ pc' = "done"
  /\ UNCHANGED <<julVars, frame, callEnv, phaseLocals, huntLocals, iter>>

\* fixangle(frame)
FixAngle ==
  /\ call = "fixangle" /\ pc = "start"
  /\ ret' = fixangleDouble(frame)
  /\ pc' = "done"
  /\ UNCHANGED <<julVars, innerVars, callEnv, phaseLocals, huntLocals, iter>>

InnerNext == TrueStart \/ TrueCorrect \/ TrueReturn \/ FixAngle

SpecInner == InnerInit /\ [][InnerNext]_vars

TrueCorrected == call = "truephase" /\ pc \in {"return", "done"}
TrueReturned == call = "truephase" /\ pc = "done"
\* the steps return what truephase, in one piece, returns to phase_hunt
TrueSame == TrueReturned => ret = truephase(k1, sel)

\* a selector that is a whole number s >= 0, and that number
WholeSelector == sel >= 0 /\ sel % Unit = 0
SelectorNumber == sel \div Unit
\* the constants of lune.js in the order NEW, FIRST, FULL, LAST
PhaseConstants == <<NEW_PHASE, FIRST, FULL, LAST>>

\* C21: the selector is taken modulo 4: for a whole selector s, truephase(k, s) returns
\* what truephase(k, s mod 4) returns, and the selectors 0, 1, 2, 3 return the new
\* moon, the first quarter, the full moon and the last quarter of lunation k
C21_SelectorModuloFour ==
  TrueReturned /\ WholeSelector =>
    /\ ret = truephase(k1, (SelectorNumber % 4) * Unit)
    /\ SelectorNumber \in 0 .. 3 => ret = truephase(k1, PhaseConstants[SelectorNumber + 1])

\* pt before the corrections, and what the corrections have added to it, in 10^-8 day
TrueMeanTime == MeanTime(frame.k, frame.t)
RUnits(r) == r.i * Unit + r.f
TrueApplied == RUnits(RSub(frame.pt, TrueMeanTime))
\* the series of New and Full Moon, and the first n + 1 terms of that of the quarters,
\* on the mean elements of the call
NewFullSeries ==
  Periodic(17340000 - MulDiv(frame.t, 393, 10000), NewFullTerms,
           frame.m, frame.mprime, frame.f)
QuarterSeries(n) ==
  FMul(17210000 - MulDiv(frame.t, 4, 100), dsin(frame.m))
  + SumTerms(QuarterTerms, frame.m, frame.mprime, frame.f, n)
QuadrantTerm == QuarterCorrection(frame.m, frame.mprime)
\* what truephase adds to pt for the selector tphase on the mean elements of the call
CorrectionOf(tphase) ==
  RUnits(RSub(TruePhaseCorrect(tphase, frame.t, TrueMeanTime, frame.m, frame.mprime,
                               frame.f),
              TrueMeanTime))
\* on equal mean elements the corrections of FIRST and LAST are one series, with the
\* quadrant term added for FIRST and subtracted for LAST
QuarterSignOnly(series) ==
  /\ CorrectionOf(FIRST) = series + QuadrantTerm
  /\ CorrectionOf(LAST) = series - QuadrantTerm

\* C22 (as stated): the series of New and Full Moon has 13 terms, that of the quarters
\* has 13 terms too, with the quadrant term added for FIRST and subtracted for LAST
C22_ThirteenAndThirteen ==
  TrueCorrected =>
    /\ TrueNewFull(sel) => frame.terms = 13 /\ TrueApplied = NewFullSeries
    /\ TrueQuarter(sel) =>
         /\ frame.terms = 13
         /\ TrueApplied = QuarterSeries(12) + QuadrantSign(sel) * QuadrantTerm
    /\ QuarterSignOnly(QuarterSeries(12))
\* C22 (amended): the series of New and Full Moon has 13 terms, that of the quarters
\* has 15, followed by the quadrant term, added for FIRST and subtracted for LAST; on
\* equal mean elements the two quarter corrections differ by the sign of that term only
C22_ThirteenAndFifteen ==
  TrueCorrected =>
    /\ TrueNewFull(sel) => frame.terms = 13 /\ TrueApplied = NewFullSeries
    /\ TrueQuarter(sel) =>
         /\ frame.terms = 15
         /\ TrueApplied = QuarterSeries(14) + (IF sel < FULL THEN 1 ELSE -1) * QuadrantTerm
    /\ QuarterSignOnly(QuarterSeries(14))
\* the last quarter of lunation 1408 has been corrected, by the series less a
\* quadrant term that is not 0
C22_Witness ==
  /\ TrueCorrected /\ sel = LAST /\ k1 = Num(1408)
  /\ QuadrantTerm > 0 /\ TrueApplied = QuarterSeries(14) - QuadrantTerm

\* a selector that is not below 0.01 and not within 0.01 of 0.25, 0.5 or 0.75
SelectorMatchesNone ==
  sel >= 1000000 /\ \A c \in {FIRST, FULL, LAST} : Abs(sel - c) >= 1000000
\* C25: with a selector that matches none of the four phases truephase returns, with
\* no correction applied and the selector logged, the mean time of the index k + tphase
\* as a Date; a selector below 0.01, negative ones included, gets the series of New
\* and Full Moon and nothing is logged
C25_UnmatchedSelector ==
  TrueReturned =>
    /\ SelectorMatchesNone =>
         /\ frame.terms = 0 /\ TrueApplied = 0
         /\ console = <<sel>>
         /\ ret.valid
         /\ ret = toDate(RealToCount(MeanTime(Real(k1.v, sel), TruePhaseT(k1.v, sel))))
    /\ sel < 1000000 =>
         /\ frame.terms = 13 /\ TrueApplied = NewFullSeries
         /\ console = <<>>
         /\ ret.valid
\* truephase(1408, 0.3) has returned a Date and logged 0.3
C25_Witness ==
  /\ TrueReturned /\ k1 = Num(1408) /\ sel = 30000000
  /\ console = <<30000000>> /\ ret.valid /\ TrueApplied = 0
\* truephase(1408, -0.25) has returned the Date corrected for New and Full Moon
C25_WitnessNegative ==
  /\ TrueReturned /\ k1 = Num(1408) /\ sel = -25000000
  /\ console = <<>> /\ ret.valid /\ TrueApplied = NewFullSeries /\ TrueApplied # 0

FixReturned == call = "fixangle" /\ pc = "done"
\* the part below one degree of an angle, in units of 2^-FoldMaxExp degree
FoldUnits(a) == IF a.n = 0 THEN 0 ELSE a.n * 2^(FoldMaxExp - a.e)
\* 0 <= r < 360
InFold(r) == (r.w > 0 \/ (r.w = 0 /\ r.n >= 0)) /\ (r.w < 360 \/ (r.w = 360 /\ r.n < 0))
\* r is a plus a multiple of 360, to within the rounding of r (half of 2^-44)
FoldedFrom(r, a) ==
  /\ (r.w - a.w) % 360 = 0
  /\ 2 * Abs(FoldUnits(r) - FoldUnits(a)) <= 2^(FoldMaxExp - FoldExp)
\* C23: fixangle(a) lies in [0, 360) and is a plus a multiple of 360, for negative a
\* as for the others
C23_FoldsForward == FixReturned => InFold(ret) /\ FoldedFrom(ret, frame)
\* the fold goes forward for the negative angles: what fixangle returns is never
\* negative, is at most 360 and is a plus a multiple of 360
FoldsToClosedRange ==
  FixReturned =>
    /\ ret.w > 0 \/ (ret.w = 0 /\ ret.n >= 0)
    /\ ret.w < 360 \/ (ret.w = 360 /\ ret.n <= 0)
    /\ FoldedFrom(ret, frame)
\* fixangle(-90) has returned 270
FoldWitness == FixReturned /\ frame = Angle(-90, 0, 0) /\ ret = Angle(270, 0, 0)

(***************************************************************************)
(* phase_hunt and the Date it is passed.                                   *)
(***************************************************************************)
\* C24: no step of phase_hunt changes the instant held by the Date object it was
\* passed: the 45-day step back is applied to a copy
C24_CallerDateKept == [][call = "phase_hunt" => arg' = arg]_vars
\* phase_hunt has returned the phases around a valid date, which the caller's
\* Date still holds
C24_Witness == HuntReturned /\ arg = Date20141101 /\ ret.new_date.valid

====
